---------------------------- MODULE Spec2Model ----------------------------
(***************************************************************************)
(* A model of BakeChat: PDF ingestion (extract_documents.py), the query    *)
(* pipeline (query_handler.py), the index adapter (index_manager.py) and   *)
(* the UI session (main.py).                                               *)
(*                                                                         *)
(* Text is a sequence of lexemes.  A lexeme is either one character that   *)
(* the code treats specially (a blank, a tab, a newline, a form feed, a    *)
(* digit, a punctuation mark, a symbol outside clean_text's allow-list) or *)
(* a run of word characters and single interior blanks that no regular     *)
(* expression, separator or strip of the code can split ("Plazo de diez    *)
(* días").  Width gives the number of characters of a lexeme, so that      *)
(* len() of the code is the sum of the widths.                             *)
(***************************************************************************)
EXTENDS Integers, Sequences, FiniteSets, TLC

VARIABLES
    \* clean_text applied twice to one input
    raw, cleaned, recleaned, pcClean,
    \* extract_article_with_context applied to one input
    segText, articles, pcSeg,
    \* extract_text_from_folder: the folder listing, the loop over its PDFs
    listing, pdf_files, fileIdx, all_documents, errorLog, pcBuild,
    \* preprocess_query applied to one query
    preQuery, expanded_query, pcPre,
    \* answer_query_with_context: its arguments, its locals, its outcome
    query, index, processed_query, docs, relevant_docs, context_parts,
    caught, answer, pcQuery,
    \* the UI session of main.py: st.session_state, the file uploader, the
    \* folder convocatorias and the index saved at faiss_index
    session_index, chat_history, documents_loaded, uploaded_files, folder, disk_index

varsClean == <<raw, cleaned, recleaned, pcClean>>
varsSeg == <<segText, articles, pcSeg>>

varsBuild == <<listing, pdf_files, fileIdx, all_documents, errorLog, pcBuild>>
varsPre == <<preQuery, expanded_query, pcPre>>
varsQuery == <<query, index, processed_query, docs, relevant_docs, context_parts,
               caught, answer, pcQuery>>
varsSession == <<session_index, chat_history, documents_loaded, uploaded_files,
                 folder, disk_index>>

vars == <<varsClean, varsSeg, varsBuild, varsPre, varsQuery, varsSession>>

notClean == <<varsSeg, varsBuild, varsPre, varsQuery, varsSession>>
notSeg == <<varsClean, varsBuild, varsPre, varsQuery, varsSession>>
notBuild == <<varsClean, varsSeg, varsPre, varsQuery, varsSession>>
notPre == <<varsClean, varsSeg, varsBuild, varsQuery, varsSession>>
notQuery == <<varsClean, varsSeg, varsBuild, varsPre, varsSession>>
notSession == <<varsClean, varsSeg, varsBuild, varsPre, varsQuery>>

(* A specification that does not exercise a part of the program leaves    *)
(* that part's variables at these values.                                  *)
IdleClean ==
    /\ raw = <<>>
    /\ cleaned = <<>>
    /\ recleaned = <<>>
    /\ pcClean = "idle"

IdleSeg ==
    /\ segText = <<>>
    /\ articles = <<>>
    /\ pcSeg = "idle"

IdleBuild ==
    /\ listing = <<>>
    /\ pdf_files = <<>>
    /\ fileIdx = 0
    /\ all_documents = <<>>
    /\ errorLog = <<>>
    /\ pcBuild = "idle"

IdlePre ==
    /\ preQuery = <<>>
    /\ expanded_query = <<>>
    /\ pcPre = "idle"

IdleQuery ==
    /\ query = <<>>
    /\ index = "None"
    /\ processed_query = <<>>
    /\ docs = <<>>
    /\ relevant_docs = <<>>
    /\ context_parts = <<>>
    /\ caught = "None"
    /\ answer = "None"
    /\ pcQuery = "idle"

\* None, as the value of an index handle
NoIndex == [kind |-> "None"]

IdleSession ==
    /\ session_index = NoIndex
    /\ chat_history = <<>>
    /\ documents_loaded = FALSE
    /\ uploaded_files = {}
    /\ folder = {}
    /\ disk_index = NoIndex

-----------------------------------------------------------------------------
(* Bounds of the model *)

MaxCleanLen == 5
MaxSegLen == 5
MaxFiles == 2
MaxQueryLen == 3
MaxDocs == 3
MaxTurns == 2

Min(a, b) == IF a < b THEN a ELSE b
Max(a, b) == IF a > b THEN a ELSE b

(* All sequences over S of length at most n *)
SeqsUpTo(S, n) == UNION {[1..k -> S] : k \in 0..n}

-----------------------------------------------------------------------------
(* Character classes of Python's re module and of str.strip *)

\* [ \t]
IsBlank(c) == c \in {" ", "\t"}

\* \s and the characters str.strip() removes
IsSpace(c) == c \in {" ", "\t", "\n", "\f"}

\* \d
IsDigit(c) == c \in {"0", "1", "2", "3", "4", "5", "6", "7", "8", "9"}

\* the punctuation clean_text keeps: . , ; : ( ) ¿ ? ¡ ! -
IsKeptPunct(c) == c \in {".", ",", ";", ":", "(", ")", "¿", "?", "¡", "!", "-"}

\* symbols that are neither \w nor \s nor kept punctuation
IsOtherSymbol(c) == c \in {"[", "]", "@", "/", "'"}

\* \w: every lexeme that is not white space, punctuation or another symbol
IsWord(c) == ~IsSpace(c) /\ ~IsKeptPunct(c) /\ ~IsOtherSymbol(c)

RECURSIVE Concat(_)
Concat(ss) == IF ss = <<>> THEN <<>> ELSE Head(ss) \o Concat(Tail(ss))

\* str.strip(): white space removed from both ends
RECURSIVE LStrip(_)
LStrip(s) == IF s # <<>> /\ IsSpace(Head(s)) THEN LStrip(Tail(s)) ELSE s

RECURSIVE RStrip(_)
RStrip(s) ==
    IF s # <<>> /\ IsSpace(s[Len(s)]) THEN RStrip(SubSeq(s, 1, Len(s) - 1)) ELSE s

Strip(s) == RStrip(LStrip(s))

-----------------------------------------------------------------------------
(* clean_text, extract_documents.py:37-54 *)

\* text.replace('\f', '\n\n')
ReplaceFormFeed(s) ==
    Concat([i \in 1..Len(s) |-> IF s[i] = "\f" THEN <<"\n", "\n">> ELSE <<s[i]>>])

\* re.sub(r'[ \t]+', ' ', text)
CollapseBlanks(s) ==
    Concat([i \in 1..Len(s) |->
        IF IsBlank(s[i])
        THEN IF i > 1 /\ IsBlank(s[i - 1]) THEN <<>> ELSE <<" ">>
        ELSE <<s[i]>>])

\* re.sub(r'\n{3,}', '\n\n', text)
CollapseNewlines(s) ==
    Concat([i \in 1..Len(s) |->
        IF s[i] = "\n" /\ i > 2 /\ s[i - 1] = "\n" /\ s[i - 2] = "\n"
        THEN <<>> ELSE <<s[i]>>])

\* re.sub(r'[^\w\s\.,;:()¿?¡!-]', '', text)
RemoveSpecial(s) == SelectSeq(s, LAMBDA c : ~IsOtherSymbol(c))

clean_text(text) ==
    IF text = <<>> THEN <<>>
    ELSE Strip(RemoveSpecial(CollapseNewlines(CollapseBlanks(ReplaceFormFeed(text)))))

-----------------------------------------------------------------------------
(* extract_article_with_context, extract_documents.py:19-35                *)
(*                                                                         *)
(* article_pattern =                                                       *)
(*   (?:Artículo|Art\.) *(\d+)[.\s]+(.*?)(?=(?:Artículo|Art\.) *\d+[.\s]|$)*)
(* compiled with re.DOTALL only: the keyword is matched as written.  The   *)
(* keyword "Artículo" is one lexeme; "Art." is the lexeme "Art" followed   *)
(* by the lexeme ".".                                                      *)

\* first index >= i of s whose lexeme is not a blank " " (the pattern's " *")
RECURSIVE SkipBlanks(_, _)
SkipBlanks(s, i) == IF i <= Len(s) /\ s[i] = " " THEN SkipBlanks(s, i + 1) ELSE i

\* first index >= i of s whose lexeme is not a digit (\d+, greedy)
RECURSIVE SkipDigits(_, _)
SkipDigits(s, i) == IF i <= Len(s) /\ IsDigit(s[i]) THEN SkipDigits(s, i + 1) ELSE i

\* first index >= i of s whose lexeme is neither "." nor white space ([.\s]+, greedy)
RECURSIVE SkipSeparators(_, _)
SkipSeparators(s, i) ==
    IF i <= Len(s) /\ (s[i] = "." \/ IsSpace(s[i])) THEN SkipSeparators(s, i + 1) ELSE i

\* (?:Artículo|Art\.) at index i: the number of lexemes it takes, 0 if absent
MarkerLen(s, i) ==
    IF i > Len(s) THEN 0
    ELSE IF s[i] = "Artículo" THEN 1
    ELSE IF s[i] = "Art" /\ i < Len(s) /\ s[i + 1] = "." THEN 2
    ELSE 0

\* index of the first digit of the numeral of a marker at i
NumeralStart(s, i) == SkipBlanks(s, i + MarkerLen(s, i))

\* (?:Artículo|Art\.) *\d+ at index i: the index after the numeral, 0 if absent
NumeralEnd(s, i) ==
    IF MarkerLen(s, i) = 0 THEN 0
    ELSE LET d == NumeralStart(s, i)
             e == SkipDigits(s, d)
         IN IF e > d THEN e ELSE 0

\* (?:Artículo|Art\.) *\d+[.\s] at index i, the pattern of the lookahead
HeadingAt(s, i) ==
    LET e == NumeralEnd(s, i)
    IN e # 0 /\ e <= Len(s) /\ (s[e] = "." \/ IsSpace(s[e]))

\* $ without re.MULTILINE: the end of the text, or before a final newline
EndAnchorAt(s, p) == p = Len(s) + 1 \/ (p = Len(s) /\ s[p] = "\n")

\* (.*?)(?=...): the first index >= p where the lookahead holds
RECURSIVE BodyEnd(_, _)
BodyEnd(s, p) ==
    IF HeadingAt(s, p) \/ EndAnchorAt(s, p) \/ p > Len(s) THEN p ELSE BodyEnd(s, p + 1)

\* the unit of the match that starts at index i (HeadingAt(s, i) holds)
ArticleAt(s, i) ==
    LET d == NumeralStart(s, i)
        e == NumeralEnd(s, i)
        b == SkipSeparators(s, e)
        p == BodyEnd(s, b)
        article_num == SubSeq(s, d, e - 1)
        content == Strip(SubSeq(s, b, p - 1))
    IN [number  |-> article_num,
        content |-> <<"Artículo", " ">> \o article_num \o <<".", " ">> \o content,
        start   |-> i,
        end     |-> p]

\* re.finditer from index i on: the matches, left to right, not overlapping
RECURSIVE FindArticles(_, _)
FindArticles(s, i) ==
    IF i > Len(s) THEN <<>>
    ELSE IF HeadingAt(s, i)
         THEN LET a == ArticleAt(s, i)
              IN <<[number |-> a.number, content |-> a.content]>>
                     \o FindArticles(s, a.end)
         ELSE FindArticles(s, i + 1)

extract_article_with_context(text) == FindArticles(text, 1)

-----------------------------------------------------------------------------
(* Lengths and substrings of texts *)

\* the number of characters of a lexeme: a phrase lexeme is named
\* "<word>~<n>" for a phrase of n characters, every other lexeme by its text
Width(c) ==
    CASE c = "Artículo" -> 8
      [] c = "ARTÍCULO" -> 8
      [] c = "Art" -> 3
      [] c = "PÁGINA" -> 6
      [] c = "Plazo de diez días" -> 18
      [] c = "Objeto" -> 6
      [] c = "lorem~298" -> 298
      [] c = "lorem~299" -> 299
      [] c = "lorem~40" -> 40
      [] OTHER -> 1

\* len(text)
RECURSIVE TextLen(_)
TextLen(s) == IF s = <<>> THEN 0 ELSE Width(Head(s)) + TextLen(Tail(s))

\* text[i:].startswith(sub), i counted from 1
OccursAt(text, sub, i) ==
    /\ i + Len(sub) - 1 <= Len(text)
    /\ SubSeq(text, i, i + Len(sub) - 1) = sub

\* sub in text
Contains(text, sub) == \E i \in 1..(Len(text) + 1) : OccursAt(text, sub, i)

\* text.replace(sub, ''): every occurrence, left to right, not overlapping
RECURSIVE RemoveAllFrom(_, _, _)
RemoveAllFrom(text, sub, i) ==
    IF i > Len(text) THEN <<>>
    ELSE IF sub # <<>> /\ OccursAt(text, sub, i)
         THEN RemoveAllFrom(text, sub, i + Len(sub))
         ELSE <<text[i]>> \o RemoveAllFrom(text, sub, i + 1)

RemoveAll(text, sub) == RemoveAllFrom(text, sub, 1)

-----------------------------------------------------------------------------
(* RecursiveCharacterTextSplitter(chunk_size=1500, chunk_overlap=300,      *)
(* separators=["\n\n", "\n", ". "]).split_text, as called at               *)
(* extract_documents.py:132-143 (keep_separator and strip_whitespace at    *)
(* the library's defaults, length_function = len).                         *)

chunk_size == 1500
chunk_overlap == 300

separators == << <<"\n", "\n">>, <<"\n">>, <<".", " ">> >>

\* the start indices of the occurrences of sep in text from i on (re.split)
RECURSIVE SeparatorStarts(_, _, _)
SeparatorStarts(text, sep, i) ==
    IF i > Len(text) THEN <<>>
    ELSE IF OccursAt(text, sep, i)
         THEN <<i>> \o SeparatorStarts(text, sep, i + Len(sep))
         ELSE SeparatorStarts(text, sep, i + 1)

\* _split_text_with_regex with keep_separator: the text before the first
\* separator, then each separator with the text that follows it; empty
\* pieces dropped
SplitKeeping(text, sep) ==
    LET at == SeparatorStarts(text, sep, 1)
        n == Len(at)
        pieces == [k \in 1..(n + 1) |->
                     SubSeq(text,
                            IF k = 1 THEN 1 ELSE at[k - 1],
                            IF k = n + 1 THEN Len(text) ELSE at[k] - 1)]
    IN SelectSeq(pieces, LAMBDA piece : piece # <<>>)

\* _join_docs: the pieces joined (the separator is kept in the pieces, so
\* they are joined by "") and stripped; no chunk when nothing is left
JoinDocs(current_doc) ==
    LET text == Strip(Concat(current_doc))
    IN IF text = <<>> THEN <<>> ELSE <<text>>

\* the while loop of _merge_splits: pieces are dropped from the front of
\* current_doc while it is longer than the overlap, or too long to take d
RECURSIVE PopFront(_, _, _)
PopFront(current_doc, total, dlen) ==
    IF total > chunk_overlap \/ (total + dlen > chunk_size /\ total > 0)
    THEN PopFront(Tail(current_doc), total - TextLen(Head(current_doc)), dlen)
    ELSE [current_doc |-> current_doc, total |-> total]

\* _merge_splits from piece k on, with the pieces gathered so far
RECURSIVE MergeFrom(_, _, _, _)
MergeFrom(splits, k, current_doc, total) ==
    IF k > Len(splits) THEN JoinDocs(current_doc)
    ELSE LET d == splits[k]
             dlen == TextLen(d)
         IN IF total + dlen > chunk_size /\ current_doc # <<>>
            THEN LET kept == PopFront(current_doc, total, dlen)
                 IN JoinDocs(current_doc)
                        \o MergeFrom(splits, k + 1, Append(kept.current_doc, d),
                                     kept.total + dlen)
            ELSE MergeFrom(splits, k + 1, Append(current_doc, d), total + dlen)

_merge_splits(splits) == MergeFrom(splits, 1, <<>>, 0)

\* the separator _split_text picks: the index of the first of seps that
\* occurs in the text, 0 when none does (then the last one is used and no
\* separator is left for the pieces)
FirstSeparator(text, seps) ==
    LET found == {k \in 1..Len(seps) : Contains(text, seps[k])}
    IN IF found = {} THEN 0 ELSE CHOOSE k \in found : \A j \in found : k <= j

RECURSIVE _split_text(_, _)
RECURSIVE SplitPieces(_, _, _, _)

\* the loop of _split_text over its pieces: short pieces are gathered and
\* merged, a long piece is split again by the separators left, or kept as
\* it is when none is left
SplitPieces(splits, k, good_splits, new_separators) ==
    IF k > Len(splits)
    THEN IF good_splits # <<>> THEN _merge_splits(good_splits) ELSE <<>>
    ELSE IF TextLen(splits[k]) < chunk_size
         THEN SplitPieces(splits, k + 1, Append(good_splits, splits[k]), new_separators)
         ELSE (IF good_splits # <<>> THEN _merge_splits(good_splits) ELSE <<>>)
                \o (IF new_separators = <<>>
                    THEN <<splits[k]>>
                    ELSE _split_text(splits[k], new_separators))
                \o SplitPieces(splits, k + 1, <<>>, new_separators)

_split_text(text, seps) ==
    LET f == FirstSeparator(text, seps)
        separator == IF f = 0 THEN seps[Len(seps)] ELSE seps[f]
        new_separators == IF f = 0 THEN <<>> ELSE SubSeq(seps, f + 1, Len(seps))
    IN SplitPieces(SplitKeeping(text, separator), 1, <<>>, new_separators)

split_text(text) == _split_text(text, separators)

-----------------------------------------------------------------------------
(* extract_text_from_folder, extract_documents.py:71-173                   *)
(*                                                                         *)
(* A file of the folder is a record: its filename, whether                 *)
(* pdfplumber.open succeeds, and its pages; a page is the text             *)
(* page.extract_text() returns (<<>> for None or ""), or raises.           *)

\* page_num = None
NoPage == 0

DigitLexeme == <<"1", "2", "3", "4", "5", "6", "7", "8", "9">>

\* str(i) of the f-strings
RECURSIVE Decimal(_)
Decimal(n) ==
    IF n < 10 THEN (IF n = 0 THEN <<"0">> ELSE <<DigitLexeme[n]>>)
    ELSE Decimal(n \div 10) \o Decimal(n % 10)

\* f"\n[PÁGINA {i}]\n", line 92
PageMarker(i) == <<"\n", "[", "PÁGINA", " ">> \o Decimal(i) \o <<"]", "\n">>

\* f.lower().endswith('.pdf'), line 76
IsPdfName(filename) == filename.suffix \in {".pdf", ".PDF", ".Pdf"}

\* whether the try block of lines 82-166 raises for the file: open fails
\* (line 83) or a page's extract_text raises (line 89)
FileFails(f) == ~f.opens \/ \E i \in 1..Len(f.pages) : f.pages[i].raises

\* page_texts (lines 85-91): the pages with text, in page order
page_texts_of(f) ==
    SelectSeq([i \in 1..Len(f.pages) |-> [page |-> i, text |-> f.pages[i].text]],
              LAMBDA pt : ~f.pages[pt.page].raises /\ pt.text # <<>>)

\* full_text (lines 84-92)
full_text_of(f) ==
    LET pts == page_texts_of(f)
    IN Concat([k \in 1..Len(pts) |-> PageMarker(pts[k].page) \o pts[k].text])

\* the pages of page_texts whose cleaned text contains the content
PagesContaining(pts, content) ==
    SelectSeq(pts, LAMBDA pt : Contains(clean_text(pt.text), content))

\* lines 112-116: the loop variable page_num is what the metadata takes
ArticlePageLookup(pts, article_content) ==
    LET hits == PagesContaining(pts, article_content)
    IN IF pts = <<>> THEN NoPage
       ELSE IF hits # <<>> THEN hits[1].page
       ELSE pts[Len(pts)].page

\* lines 151-155: page_num is set only on a hit
ChunkPageLookup(pts, chunk) ==
    LET hits == PagesContaining(pts, chunk)
    IN IF hits # <<>> THEN hits[1].page ELSE NoPage

\* lines 139-140: each article's content deleted from the cleaned text
RECURSIVE RemoveArticles(_, _, _)
RemoveArticles(text, arts, k) ==
    IF k > Len(arts) THEN text
    ELSE RemoveArticles(RemoveAll(text, arts[k].content), arts, k + 1)

\* len(chunk.strip()) < 100, line 147
MinChunkLen == 100

SkipChunk(chunk) == TextLen(Strip(chunk)) < MinChunkLen

\* the units of one file whose try block does not raise (lines 95-166)
FileUnits(f) ==
    LET pts == page_texts_of(f)
        cleaned_text == clean_text(full_text_of(f))
        arts == extract_article_with_context(cleaned_text)
        chunks == SelectSeq(split_text(RemoveArticles(cleaned_text, arts, 1)),
                            LAMBDA chunk : ~SkipChunk(chunk))
    IN [k \in 1..Len(arts) |->
            [page_content   |-> arts[k].content,
             content_type   |-> "article",
             article_number |-> arts[k].number,
             source         |-> f.filename,
             page           |-> ArticlePageLookup(pts, arts[k].content)]]
       \o
       [k \in 1..Len(chunks) |->
            [page_content   |-> chunks[k],
             content_type   |-> "general",
             article_number |-> <<>>,
             source         |-> f.filename,
             page           |-> ChunkPageLookup(pts, chunks[k])]]

-----------------------------------------------------------------------------
(* preprocess_query, query_handler.py:8-34                                 *)
(*                                                                         *)
(* A query is a text whose word lexemes are whole words.                   *)

\* str.lower() on a lexeme
Lower(c) ==
    CASE c = "Fecha" -> "fecha"
      [] c = "PLAZO" -> "plazo"
      [] OTHER -> c

\* query.lower(), line 12
LowerText(s) == [i \in 1..Len(s) |-> Lower(s[i])]

\* re.sub(r'[^\w\s]', '', query), line 13
RemovePunctuation(s) == SelectSeq(s, LAMBDA c : IsWord(c) \/ IsSpace(c))

\* str.split() from index i on: the maximal runs without white space
RECURSIVE SkipSpace(_, _)
SkipSpace(s, i) == IF i <= Len(s) /\ IsSpace(s[i]) THEN SkipSpace(s, i + 1) ELSE i

RECURSIVE SkipNonSpace(_, _)
SkipNonSpace(s, i) ==
    IF i <= Len(s) /\ ~IsSpace(s[i]) THEN SkipNonSpace(s, i + 1) ELSE i

RECURSIVE SplitFrom(_, _)
SplitFrom(s, i) ==
    LET b == SkipSpace(s, i)
        e == SkipNonSpace(s, b)
    IN IF b > Len(s) THEN <<>> ELSE <<SubSeq(s, b, e - 1)>> \o SplitFrom(s, e)

Split(s) == SplitFrom(s, 1)

\* the keys of expansions, lines 16-22
ExpansionKeys == {"fecha", "plazo", "requisito", "documento", "ayuda"}

\* expansions[word], lines 16-22
expansions(word) ==
    CASE word = "fecha" -> {"plazo", "cuando"}
      [] word = "plazo" -> {"fecha", "periodo"}
      [] word = "requisito" -> {"condicion", "requerimiento"}
      [] word = "documento" -> {"documentacion", "papel"}
      [] word = "ayuda" -> {"subvencion", "financiacion"}

\* the query as lines 12-13 leave it
NormalizedQuery(q) == RemovePunctuation(LowerText(q))

\* expanded_terms, lines 25-31: the whole query as one term, and the
\* expansions of each of its words that is a key
expanded_terms(q) ==
    LET normalized == NormalizedQuery(q)
        words == Split(normalized)
        keys == {words[k][1] : k \in {j \in 1..Len(words) :
                     Len(words[j]) = 1 /\ words[j][1] \in ExpansionKeys}}
    IN {normalized} \cup UNION {{<<term>> : term \in expansions(word)} : word \in keys}

\* the orders in which a set may be iterated
Orderings(S) ==
    {order \in [1..Cardinality(S) -> S] :
        \A i, j \in 1..Cardinality(S) : i # j => order[i] # order[j]}

\* ' '.join(terms)
RECURSIVE JoinBlank(_)
JoinBlank(terms) ==
    IF terms = <<>> THEN <<>>
    ELSE IF Len(terms) = 1 THEN terms[1]
    ELSE terms[1] \o <<" ">> \o JoinBlank(Tail(terms))

\* the values preprocess_query may return, line 33: the terms of the set
\* joined in the order the set is iterated
preprocess_query(q) == {JoinBlank(order) : order \in Orderings(expanded_terms(q))}

-----------------------------------------------------------------------------
(* answer_query_with_context, query_handler.py:36-136                      *)
(*                                                                         *)
(* A search result is a sequence of pairs [doc, score]; a relevance score  *)
(* is counted in hundredths, so the thresholds 0.03 and 0.05 are 3 and 5.  *)
(* article_docs, general_docs and relevant_docs hold references to the     *)
(* results: the positions of the pairs in docs.                            *)

\* k=20, line 51
TopK == 20

\* score > 0.03, line 72
ArticleThreshold == 3

\* score > 0.05, line 77
GeneralThreshold == 5

\* relevant_docs[:10], line 86
ContextLimit == 10

Indices(s) == [i \in 1..Len(s) |-> i]

\* doc.metadata.get('content_type') == 'article', line 62
IsArticleDoc(doc) == doc.content_type = "article"

\* lines 61-65
article_docs_of(ds) == SelectSeq(Indices(ds), LAMBDA i : IsArticleDoc(ds[i].doc))
general_docs_of(ds) == SelectSeq(Indices(ds), LAMBDA i : ~IsArticleDoc(ds[i].doc))

\* a single threshold for both content types
RelevantGeneralAtArticleThreshold(score) == score > ArticleThreshold

\* line 72
RelevantArticle(score) == score > ArticleThreshold

\* line 77
RelevantGeneral(score) == score > GeneralThreshold

\* lines 68-78: the relevant articles, then the relevant general documents
relevant_docs_of(ds) ==
    SelectSeq(article_docs_of(ds), LAMBDA i : RelevantArticle(ds[i].score))
        \o SelectSeq(general_docs_of(ds), LAMBDA i : RelevantGeneral(ds[i].score))

\* \[Página (\d+)\] at index i of a content: the index after the match, 0
\* when there is none
PageTagEnd(s, i) ==
    IF i + 2 <= Len(s) /\ s[i] = "[" /\ s[i + 1] = "Página" /\ s[i + 2] = " "
    THEN LET e == SkipDigits(s, i + 3)
         IN IF e > i + 3 /\ e <= Len(s) /\ s[e] = "]" THEN e + 1 ELSE 0
    ELSE 0

\* re.search(r'\[Página (\d+)\]', ...), lines 88-89: group 1 of the first
\* match, 'N/A' without a match
PageLabelOf(s) ==
    LET hits == {i \in 1..Len(s) : PageTagEnd(s, i) # 0}
    IN IF hits = {} THEN <<"N/A">>
       ELSE LET i == CHOOSE h \in hits : \A j \in hits : h <= j
            IN SubSeq(s, i + 3, PageTagEnd(s, i) - 2)

\* re.sub(r'\[Página \d+\]', '', content), line 93
RECURSIVE RemovePageTagsFrom(_, _)
RemovePageTagsFrom(s, i) ==
    IF i > Len(s) THEN <<>>
    ELSE IF PageTagEnd(s, i) # 0 THEN RemovePageTagsFrom(s, PageTagEnd(s, i))
    ELSE <<s[i]>> \o RemovePageTagsFrom(s, i + 1)

\* one entry of context_parts, lines 87-96:
\* f"[Fuente: {source} - Página {page}]:\n{content}"
ContextPart(doc) ==
    [source  |-> doc.source,
     page    |-> PageLabelOf(doc.page_content),
     content |-> Strip(RemovePageTagsFrom(doc.page_content, 1))]

\* lines 85-96
context_parts_of(ds, relevant) ==
    [k \in 1..Min(ContextLimit, Len(relevant)) |-> ContextPart(ds[relevant[k]].doc)]

\* whether query_handler.py binds the name logger that line 135 uses: the
\* module imports logging (lines 1-6) and defines no logger
LoggerDefined == FALSE

-----------------------------------------------------------------------------
(* Specification SpecClean: clean_text applied to an input, then to its    *)
(* own result.                                                             *)

CleanAlphabet == {"a", " ", "\t", "\n", "\f", "@"}

InitClean ==
    /\ raw \in SeqsUpTo(CleanAlphabet, MaxCleanLen)
    /\ cleaned = <<>>
    /\ recleaned = <<>>
    /\ pcClean = "start"
    /\ IdleSeg
    /\ IdleBuild
    /\ IdlePre
    /\ IdleQuery
    /\ IdleSession

CleanOnce ==
    /\ pcClean = "start"
    /\ cleaned' = clean_text(raw)
    /\ pcClean' = "once"
    /\ UNCHANGED <<raw, recleaned>>
    /\ UNCHANGED notClean

CleanTwice ==
    /\ pcClean = "once"
    /\ recleaned' = clean_text(cleaned)
    /\ pcClean' = "twice"
    /\ UNCHANGED <<raw, cleaned>>
    /\ UNCHANGED notClean

NextClean == CleanOnce \/ CleanTwice

SpecClean == InitClean /\ [][NextClean]_vars

\* C5: clean_text is idempotent: clean_text(clean_text(s)) = clean_text(s)
\* for every input s
C5_CleanIdempotent == pcClean = "twice" => recleaned = cleaned

-----------------------------------------------------------------------------
(* Specification SpecSeg: extract_article_with_context applied to a text.  *)

SegAlphabet == {"Artículo", "Art", "ARTÍCULO", ".", " ", "\n", "7", "8", "x"}

InitSeg ==
    /\ segText \in SeqsUpTo(SegAlphabet, MaxSegLen)
    /\ articles = <<>>
    /\ pcSeg = "start"
    /\ IdleClean
    /\ IdleBuild
    /\ IdlePre
    /\ IdleQuery
    /\ IdleSession

Segment ==
    /\ pcSeg = "start"
    /\ articles' = extract_article_with_context(segText)
    /\ pcSeg' = "done"
    /\ UNCHANGED segText
    /\ UNCHANGED notSeg

NextSeg == Segment

SpecSeg == InitSeg /\ [][NextSeg]_vars

(* A heading as C9 words it: the keyword in any letter case, a decimal     *)
(* numeral, then a period or white space.                                  *)
KeywordLen(s, i) ==
    IF i > Len(s) THEN 0
    ELSE IF s[i] \in {"Artículo", "ARTÍCULO", "artículo"} THEN 1
    ELSE IF s[i] \in {"Art", "ART", "art"} /\ i < Len(s) /\ s[i + 1] = "." THEN 2
    ELSE 0

ClaimedNumeralEnd(s, i) ==
    IF KeywordLen(s, i) = 0 THEN 0
    ELSE LET d == SkipBlanks(s, i + KeywordLen(s, i))
             e == SkipDigits(s, d)
         IN IF e > d THEN e ELSE 0

ClaimedHeadingAt(s, i) ==
    LET e == ClaimedNumeralEnd(s, i)
    IN e # 0 /\ e <= Len(s) /\ (s[e] = "." \/ IsSpace(s[e]))

ClaimedNumeral(s, i) ==
    LET e == ClaimedNumeralEnd(s, i)
    IN SubSeq(s, SkipBlanks(s, i + KeywordLen(s, i)), e - 1)

\* the indices of the headings of s, in document order
ClaimedHeadings(s) ==
    SelectSeq([i \in 1..Len(s) |-> i], LAMBDA i : ClaimedHeadingAt(s, i))

StartsWith(s, prefix) ==
    Len(s) >= Len(prefix) /\ SubSeq(s, 1, Len(prefix)) = prefix

\* C9: extract_article_with_context returns exactly one unit per heading
\* (keyword in any letter case, numeral, period or white space), in document
\* order; each unit's number is the heading's numeral, its content starts
\* with "Artículo {number}." and its body holds no further heading.
C9_OneUnitPerHeading ==
    pcSeg = "done" =>
        LET hs == ClaimedHeadings(segText)
        IN /\ Len(articles) = Len(hs)
           /\ \A k \in 1..Len(articles) :
                /\ articles[k].number = ClaimedNumeral(segText, hs[k])
                /\ StartsWith(articles[k].content,
                              <<"Artículo", " ">> \o articles[k].number \o <<".">>)
                /\ \A j \in 2..Len(articles[k].content) :
                       ~ClaimedHeadingAt(articles[k].content, j)

\* The same statement with the keyword matched as the pattern writes it
\* ("Artículo" or "Art."), which is what the code implements.
SegExactKeyword ==
    pcSeg = "done" =>
        LET hs == SelectSeq([i \in 1..Len(segText) |-> i],
                            LAMBDA i : HeadingAt(segText, i))
        IN /\ Len(articles) = Len(hs)
           /\ \A k \in 1..Len(articles) :
                /\ articles[k].number =
                       SubSeq(segText, NumeralStart(segText, hs[k]),
                              NumeralEnd(segText, hs[k]) - 1)
                /\ StartsWith(articles[k].content,
                              <<"Artículo", " ">> \o articles[k].number \o <<".">>)
                /\ \A j \in 2..Len(articles[k].content) :
                       ~HeadingAt(articles[k].content, j)

-----------------------------------------------------------------------------
(* Specification SpecBuild: extract_text_from_folder on a folder listing.  *)

Name(stem, suffix) == [stem |-> stem, suffix |-> suffix]
TextPage(text) == [raises |-> FALSE, text |-> text]
RaisingPage == [raises |-> TRUE, text |-> <<>>]
PdfFile(filename, opens, pages) ==
    [filename |-> filename, opens |-> opens, pages |-> pages]

\* "Artículo 21. Plazo de diez días."
Article21Text == <<"Artículo", " ", "2", "1", ".", " ", "Plazo de diez días", ".">>

\* "Artículo 1. Objeto."
Article1Text == <<"Artículo", " ", "1", ".", " ", "Objeto", ".">>

\* "Art. 2  Plazo de diez días."
Article2Text == <<"Art", ".", " ", "2", " ", " ", "Plazo de diez días", ".">>

\* "Art. 3 " and a body of 299 characters
Article3Text == <<"Art", ".", " ", "3", " ", "lorem~298", ".">>

\* 1800 characters without an article heading: six sentences
FillerSentence == <<"lorem~298", ".", " ">>
Filler1800 ==
    FillerSentence \o FillerSentence \o FillerSentence \o FillerSentence
        \o FillerSentence \o <<"lorem~299", ".">>

\* the files a folder may hold
SampleFiles ==
    { PdfFile(Name("convocatoria", ".pdf"), TRUE,
              <<TextPage(Article21Text), TextPage(Filler1800)>>),
      PdfFile(Name("bases", ".pdf"), TRUE, <<TextPage(Article21Text)>>),
      PdfFile(Name("anexo", ".PDF"), TRUE, <<TextPage(Filler1800)>>),
      PdfFile(Name("orden", ".pdf"), TRUE,
              <<TextPage(Filler1800), TextPage(Article21Text)>>),
      PdfFile(Name("reglamento", ".pdf"), TRUE,
              <<TextPage(Article1Text), TextPage(Article2Text)>>),
      PdfFile(Name("estatuto", ".pdf"), TRUE, <<TextPage(Article3Text)>>),
      PdfFile(Name("nota", ".pdf"), TRUE, <<TextPage(<<"lorem~40", ".">>)>>),
      PdfFile(Name("escaneado", ".pdf"), TRUE, <<TextPage(<<>>)>>),
      PdfFile(Name("roto", ".pdf"), FALSE, <<>>),
      PdfFile(Name("parcial", ".pdf"), TRUE,
              <<TextPage(Article21Text), RaisingPage>>),
      PdfFile(Name("leeme", ".txt"), TRUE, <<TextPage(Filler1800)>>) }

\* os.listdir: the files of the folder, each once, in any order
Listings ==
    {l \in SeqsUpTo(SampleFiles, MaxFiles) :
        \A i, j \in 1..Len(l) : i # j => l[i] # l[j]}

InitBuild ==
    /\ listing \in Listings
    /\ pdf_files = <<>>
    /\ fileIdx = 0
    /\ all_documents = <<>>
    /\ errorLog = <<>>
    /\ pcBuild = "start"
    /\ IdleClean
    /\ IdleSeg
    /\ IdlePre
    /\ IdleQuery
    /\ IdleSession

\* lines 75-76
ListPdfFiles ==
    /\ pcBuild = "start"
    /\ pdf_files' = SelectSeq(listing, LAMBDA f : IsPdfName(f.filename))
    /\ pcBuild' = "loop"
    /\ UNCHANGED <<listing, fileIdx, all_documents, errorLog>>
    /\ UNCHANGED notBuild

\* ProcessFile without the try/except of lines 82 and 168-170: the
\* exception of a failing file leaves the function
ProcessFileUnguarded ==
    /\ pcBuild = "loop"
    /\ fileIdx < Len(pdf_files)
    /\ LET f == pdf_files[fileIdx + 1]
       IN IF FileFails(f)
          THEN /\ pcBuild' = "raised"
               /\ UNCHANGED <<all_documents, errorLog>>
          ELSE /\ all_documents' = all_documents \o FileUnits(f)
               /\ UNCHANGED <<errorLog, pcBuild>>
    /\ fileIdx' = fileIdx + 1
    /\ UNCHANGED <<listing, pdf_files>>
    /\ UNCHANGED notBuild

\* one iteration of the loop of lines 78-170: the file's units are appended,
\* or the exception is logged and the loop goes on
ProcessFile ==
    /\ pcBuild = "loop"
    /\ fileIdx < Len(pdf_files)
    /\ LET f == pdf_files[fileIdx + 1]
       IN IF FileFails(f)
          THEN /\ errorLog' = Append(errorLog, f.filename)
               /\ UNCHANGED all_documents
          ELSE /\ all_documents' = all_documents \o FileUnits(f)
               /\ UNCHANGED errorLog
    /\ fileIdx' = fileIdx + 1
    /\ UNCHANGED <<listing, pdf_files, pcBuild>>
    /\ UNCHANGED notBuild

\* lines 172-173
ReturnDocuments ==
    /\ pcBuild = "loop"
    /\ fileIdx = Len(pdf_files)
    /\ pcBuild' = "returned"
    /\ UNCHANGED <<listing, pdf_files, fileIdx, all_documents, errorLog>>
    /\ UNCHANGED notBuild

NextBuild == ListPdfFiles \/ ProcessFile \/ ReturnDocuments

SpecBuild == InitBuild /\ [][NextBuild]_vars

\* the file of the listing a unit names as its source
FileOf(unit) == CHOOSE f \in {listing[k] : k \in 1..Len(listing)} : f.filename = unit.source

\* the number of the first page of f whose normalized text contains the
\* content, NoPage when no page does
FirstPageContaining(f, content) ==
    LET hits == {i \in 1..Len(f.pages) : Contains(clean_text(f.pages[i].text), content)}
    IN IF hits = {} THEN NoPage ELSE CHOOSE i \in hits : \A j \in hits : i <= j

\* C3: every unit's page is the number of the first page whose normalized
\* text contains the unit's exact content, and is unset when no page's
\* normalized text contains it (Article units and General chunks alike).
C3_PageUnsetOnMiss ==
    pcBuild = "returned" =>
        \A k \in 1..Len(all_documents) :
            all_documents[k].page =
                FirstPageContaining(FileOf(all_documents[k]), all_documents[k].page_content)

\* the two-page document of C4
Convocatoria == Name("convocatoria", ".pdf")

UnitsOfSource(filename) == SelectSeq(all_documents, LAMBDA u : u.source = filename)

\* C4: for the two-page document (page 1 "Artículo 21. Plazo de diez días.",
\* page 2 1800 characters of filler without a heading) the units are exactly
\* one Article unit, number "21", content "Artículo 21. Plazo de diez días.",
\* page 1, and at least one General unit of length >= 100 drawn from page 2
\* with page 2.
C4_LastArticleStopsAtPageEnd ==
    (pcBuild = "returned" /\ \E k \in 1..Len(listing) : listing[k].filename = Convocatoria) =>
        LET units == UnitsOfSource(Convocatoria)
            arts == SelectSeq(units, LAMBDA u : u.content_type = "article")
            gens == SelectSeq(units, LAMBDA u : u.content_type = "general")
        IN /\ Len(arts) = 1
           /\ arts[1].article_number = <<"2", "1">>
           /\ arts[1].page_content = Article21Text
           /\ arts[1].page = 1
           /\ \E g \in 1..Len(gens) :
                /\ TextLen(gens[g].page_content) >= 100
                /\ Contains(clean_text(Filler1800), gens[g].page_content)
                /\ gens[g].page = 2

\* a PDF of the listing that fails to open or to parse
BrokenPdf(f) ==
    IsPdfName(f.filename) /\ (~f.opens \/ \E i \in 1..Len(f.pages) : f.pages[i].raises)

SoundPdf(f) ==
    IsPdfName(f.filename) /\ f.opens /\ \A i \in 1..Len(f.pages) : ~f.pages[i].raises

\* C6: the call never raises; when it has returned, no unit comes from a PDF
\* that failed to open or parse, and the result is exactly the units of the
\* PDFs that did not fail, in the order of the folder listing (the empty
\* sequence when every PDF fails or there is none).
C6_FailuresIsolated ==
    /\ pcBuild # "raised"
    /\ pcBuild = "returned" =>
        LET sound == SelectSeq(listing, SoundPdf)
        IN /\ \A k \in 1..Len(all_documents) : ~BrokenPdf(FileOf(all_documents[k]))
           /\ all_documents = Concat([k \in 1..Len(sound) |-> FileUnits(sound[k])])
           /\ (sound = <<>> => all_documents = <<>>)

\* a call that has returned the units of a sound PDF listed after a broken one
C6_Witness ==
    /\ pcBuild = "returned"
    /\ Len(listing) = 2
    /\ BrokenPdf(listing[1])
    /\ SoundPdf(listing[2])
    /\ all_documents # <<>>

\* the body of an Article unit: its content after the rebuilt heading
\* "Artículo N. " (extract_documents.py:29-33)
ArticleBody(unit) ==
    SubSeq(unit.page_content, Len(unit.article_number) + 5, Len(unit.page_content))

\* C11: when the call has returned, no General unit of a file contains the
\* body of an Article unit extracted from the same file, whatever accepted
\* form the article's heading has ("Artículo N" or "Art. N", any accepted
\* run of spaces and separators before the body): the article's text is
\* absent from the residual text given to the chunker.
C11_ArticleNotInGeneral ==
    pcBuild = "returned" =>
        \A a, g \in 1..Len(all_documents) :
            (/\ all_documents[a].content_type = "article"
             /\ all_documents[g].content_type = "general"
             /\ all_documents[a].source = all_documents[g].source
             /\ ArticleBody(all_documents[a]) # <<>>)
            => ~Contains(all_documents[g].page_content, ArticleBody(all_documents[a]))

\* what the removal does achieve: no General unit contains the exact
\* content string of an Article unit of the same file
ExactContentNotInGeneral ==
    pcBuild = "returned" =>
        \A a, g \in 1..Len(all_documents) :
            (/\ all_documents[a].content_type = "article"
             /\ all_documents[g].content_type = "general"
             /\ all_documents[a].source = all_documents[g].source)
            => ~Contains(all_documents[g].page_content, all_documents[a].page_content)

-----------------------------------------------------------------------------
(* Specification SpecPre: preprocess_query applied to a query.             *)

QueryAlphabet == {"fecha", "Fecha", "plazo", "limite", " ", "?"}

InitPre ==
    /\ preQuery \in SeqsUpTo(QueryAlphabet, MaxQueryLen)
    /\ expanded_query = <<>>
    /\ pcPre = "start"
    /\ IdleClean
    /\ IdleSeg
    /\ IdleBuild
    /\ IdleQuery
    /\ IdleSession

Preprocess ==
    /\ pcPre = "start"
    /\ expanded_query' \in preprocess_query(preQuery)
    /\ pcPre' = "done"
    /\ UNCHANGED preQuery
    /\ UNCHANGED notPre

NextPre == Preprocess

SpecPre == InitPre /\ [][NextPre]_vars

\* the words of a text, as a set
WordSet(s) == {Split(s)[k] : k \in 1..Len(Split(s))}

\* the words C8 asks for: the words of the lowercased query without its
\* punctuation, and the synonyms of those that are keys of the table
ClaimedWords(q) ==
    LET words == WordSet(NormalizedQuery(q))
    IN words \cup UNION {{<<term>> : term \in expansions(w[1])} :
                            w \in {v \in words : Len(v) = 1 /\ v[1] \in ExpansionKeys}}

\* C8: the result holds every word of the normalized query and every synonym
\* of each query word that is a key of the table, and no word occurs in it
\* more than once.
C8_DeduplicatedWords ==
    pcPre = "done" =>
        LET out == Split(expanded_query)
        IN /\ ClaimedWords(preQuery) \subseteq WordSet(expanded_query)
           /\ \A i, j \in 1..Len(out) : i # j => out[i] # out[j]

\* the part of C8 the code does implement: every claimed word is present
PreAllWordsPresent ==
    pcPre = "done" => ClaimedWords(preQuery) = WordSet(expanded_query)

-----------------------------------------------------------------------------
(* Specification SpecQuery: one call of answer_query_with_context.         *)

\* the units of the index: units extract_text_from_folder builds
SampleFile(stem) == CHOOSE f \in SampleFiles : f.filename.stem = stem

IndexedUnits ==
    { FileUnits(SampleFile("bases"))[1],
      FileUnits(SampleFile("reglamento"))[1],
      FileUnits(SampleFile("anexo"))[2] }

Scores == {3, 4, 5, 6}

ScoredDocs == [doc : IndexedUnits, score : Scores]

ArticleHit == [doc |-> FileUnits(SampleFile("bases"))[1], score |-> 6]
GeneralHit == [doc |-> FileUnits(SampleFile("anexo"))[2], score |-> 6]

\* what similarity_search_with_relevance_scores may return: any short
\* result, and full results of TopK pairs
SearchResults ==
    SeqsUpTo(ScoredDocs, MaxDocs)
        \cup {[i \in 1..TopK |-> IF i <= a THEN ArticleHit ELSE GeneralHit] : a \in 0..TopK}
        \cup {[i \in 1..TopK |-> IF i <= a THEN GeneralHit ELSE ArticleHit] : a \in 0..TopK}

Queries == { <<"¿", "Fecha", " ", "limite", "?">>, <<"limite">> }

InitQuery ==
    /\ query \in Queries
    /\ index \in {"None", "FAISS"}
    /\ processed_query = <<>>
    /\ docs = <<>>
    /\ relevant_docs = <<>>
    /\ context_parts = <<>>
    /\ caught = "None"
    /\ answer = "None"
    /\ pcQuery = "start"
    /\ IdleClean
    /\ IdleSeg
    /\ IdleBuild
    /\ IdlePre
    /\ IdleSession

\* lines 45-46: no index
IndexUnavailable ==
    /\ pcQuery = "start"
    /\ index = "None"
    /\ answer' = "La base de conocimiento no está disponible."
    /\ pcQuery' = "returned"
    /\ UNCHANGED <<query, index, processed_query, docs, relevant_docs, context_parts, caught>>
    /\ UNCHANGED notQuery

\* lines 48-55: the search returns
Retrieve ==
    /\ pcQuery = "start"
    /\ index # "None"
    /\ processed_query' \in preprocess_query(query)
    /\ docs' \in SearchResults
    /\ IF docs' = <<>>
       THEN /\ answer' = "No encontré información relevante para tu pregunta."
            /\ pcQuery' = "returned"
       ELSE /\ pcQuery' = "filter"
            /\ UNCHANGED answer
    /\ UNCHANGED <<query, index, relevant_docs, context_parts, caught>>
    /\ UNCHANGED notQuery

\* line 51: the search raises
RetrieveRaises ==
    /\ pcQuery = "start"
    /\ index # "None"
    /\ processed_query' \in preprocess_query(query)
    /\ caught' = "search failed"
    /\ pcQuery' = "except"
    /\ UNCHANGED <<query, index, docs, relevant_docs, context_parts, answer>>
    /\ UNCHANGED notQuery

\* lines 57-82
FilterRelevant ==
    /\ pcQuery = "filter"
    /\ relevant_docs' = relevant_docs_of(docs)
    /\ IF relevant_docs' = <<>>
       THEN /\ answer' = "No encontré información suficientemente relevante."
            /\ pcQuery' = "returned"
       ELSE /\ pcQuery' = "context"
            /\ UNCHANGED answer
    /\ UNCHANGED <<query, index, processed_query, docs, context_parts, caught>>
    /\ UNCHANGED notQuery

\* lines 84-98
AssembleContext ==
    /\ pcQuery = "context"
    /\ context_parts' = context_parts_of(docs, relevant_docs)
    /\ pcQuery' = "generate"
    /\ UNCHANGED <<query, index, processed_query, docs, relevant_docs, caught, answer>>
    /\ UNCHANGED notQuery

\* lines 119-132: the generation service answers
Generate ==
    /\ pcQuery = "generate"
    /\ answer' = "response.choices[0].message.content"
    /\ pcQuery' = "returned"
    /\ UNCHANGED <<query, index, processed_query, docs, relevant_docs, context_parts, caught>>
    /\ UNCHANGED notQuery

\* lines 119-130: the client or the generation call raises
GenerateRaises ==
    /\ pcQuery = "generate"
    /\ caught' = "generation failed"
    /\ pcQuery' = "except"
    /\ UNCHANGED <<query, index, processed_query, docs, relevant_docs, context_parts, answer>>
    /\ UNCHANGED notQuery

\* lines 134-136: logger.error, then the error string; without a logger
\* line 135 raises NameError, which leaves the function
HandleException ==
    /\ pcQuery = "except"
    /\ IF LoggerDefined
       THEN /\ answer' = "Lo siento, ocurrió un error al procesar tu consulta: " \o caught
            /\ pcQuery' = "returned"
            /\ UNCHANGED caught
       ELSE /\ caught' = "NameError: name 'logger' is not defined"
            /\ pcQuery' = "raised"
            /\ UNCHANGED answer
    /\ UNCHANGED <<query, index, processed_query, docs, relevant_docs, context_parts>>
    /\ UNCHANGED notQuery

NextQuery ==
    \/ IndexUnavailable
    \/ Retrieve
    \/ RetrieveRaises
    \/ FilterRelevant
    \/ AssembleContext
    \/ Generate
    \/ GenerateRaises
    \/ HandleException

SpecQuery == InitQuery /\ [][NextQuery]_vars

\* the relevant set has been computed
Filtered == pcQuery \in {"context", "generate", "returned", "except", "raised"} /\ docs # <<>>

Range(s) == {s[k] : k \in 1..Len(s)}

\* C1: the relevant set holds exactly the Article results with score > 0.03
\* and the General results with score > 0.05, each once; every kept Article
\* precedes every kept General result whatever the scores; within each
\* content type the search order is kept.
C1_TwoTierFilter ==
    Filtered =>
        /\ \A i \in 1..Len(docs) :
             i \in Range(relevant_docs) <=>
                 \/ docs[i].doc.content_type = "article" /\ docs[i].score > 3
                 \/ docs[i].doc.content_type # "article" /\ docs[i].score > 5
        /\ \A a, b \in 1..Len(relevant_docs) :
             a < b =>
                 /\ relevant_docs[a] # relevant_docs[b]
                 /\ docs[relevant_docs[a]].doc.content_type # "article"
                        => docs[relevant_docs[b]].doc.content_type # "article"
                 /\ docs[relevant_docs[a]].doc.content_type
                        = docs[relevant_docs[b]].doc.content_type
                        => relevant_docs[a] < relevant_docs[b]

\* a General result found first with the higher score, an Article found
\* later with a score between the thresholds, a General result at 0.05
\* dropped: the Article leads the relevant set
C1_Witness ==
    /\ Filtered
    /\ Len(docs) = 3
    /\ docs[1].doc.content_type = "general" /\ docs[1].score = 6
    /\ docs[2].doc.content_type = "general" /\ docs[2].score = 5
    /\ docs[3].doc.content_type = "article" /\ docs[3].score = 4
    /\ relevant_docs = <<3, 1>>

\* C2: no exception leaves answer_query_with_context: with the index
\* present, a failure of any step ends in the return of the error string
\* that embeds the failure detail.
C2_NoFailureEscapes ==
    /\ pcQuery # "raised"
    /\ (pcQuery = "returned" /\ caught # "None") =>
           answer = "Lo siento, ocurrió un error al procesar tu consulta: " \o caught

\* str(page) of the page recorded in the unit's metadata
RecordedPageLabel(doc) == IF doc.page = NoPage THEN <<"N/A">> ELSE Decimal(doc.page)

\* what clean_text leaves of a page marker "[PÁGINA i]" begins at index i
IngestionMarkerAt(s, i) ==
    /\ i + 2 <= Len(s)
    /\ s[i] = "PÁGINA"
    /\ s[i + 1] = " "
    /\ IsDigit(s[i + 2])

\* C7: the context is built from the first 10 units of the relevant set, in
\* its order; each entry's label carries the unit's source and the page
\* recorded for the unit at ingestion, and its content holds no page marker
\* inserted at ingestion.
C7_ContextLabelsPage ==
    pcQuery \in {"generate", "returned", "except", "raised"} /\ relevant_docs # <<>> =>
        /\ Len(context_parts) = Min(10, Len(relevant_docs))
        /\ \A k \in 1..Len(context_parts) :
             LET doc == docs[relevant_docs[k]].doc
             IN /\ context_parts[k].source = doc.source
                /\ context_parts[k].page = RecordedPageLabel(doc)
                /\ \A i \in 1..Len(context_parts[k].content) :
                       ~IngestionMarkerAt(context_parts[k].content, i)

\* what of C7 the code does implement: the first 10 units of the relevant
\* set in its order, each with its source; the page label is 'N/A'
ContextTakesFirstTen ==
    pcQuery \in {"generate", "returned", "except", "raised"} /\ relevant_docs # <<>> =>
        /\ Len(context_parts) = Min(10, Len(relevant_docs))
        /\ \A k \in 1..Len(context_parts) :
             /\ context_parts[k].source = docs[relevant_docs[k]].doc.source
             /\ context_parts[k].page = <<"N/A">>

-----------------------------------------------------------------------------
(* index_manager.py and the UI session of main.py                          *)
(*                                                                         *)
(* An index handle is NoIndex or a record naming the sources of the        *)
(* documents it was built from.  The folder is the set of the names of its *)
(* files, whose contents are those of the sample files; the file uploader  *)
(* holds the names of the files the user has selected, over reruns.        *)

\* the files the folder can hold
SessionFiles == {Name("bases", ".pdf"), Name("roto", ".pdf")}

\* os.listdir(folder_path): the files in some order
ListDir(names) ==
    CHOOSE l \in [1..Cardinality(names) -> names] :
        \A i, j \in 1..Cardinality(names) : i # j => l[i] # l[j]

\* the file of a name
FileNamed(name) == CHOOSE f \in SampleFiles : f.filename = name

\* extract_text_from_folder on a folder, extract_documents.py:71-173
extract_text_from_folder(names) ==
    LET lst == ListDir(names)
        files == [k \in 1..Len(lst) |-> FileNamed(lst[k])]
        processed == SelectSeq(files,
                               LAMBDA f : IsPdfName(f.filename) /\ ~FileFails(f))
    IN Concat([k \in 1..Len(processed) |-> FileUnits(processed[k])])

\* what extract_text_from_folder returns for each folder
FolderDocuments == [names \in SUBSET SessionFiles |-> extract_text_from_folder(names)]

\* load_documents, main.py:30-34; extracted gives the result of
\* extract_text_from_folder for each folder
load_documents(names, extracted) == extracted[names]

\* create_index, index_manager.py:17-33; embeds is whether OpenAIEmbeddings
\* and FAISS.from_documents succeed
create_index(documents, embeds) ==
    IF documents = <<>> THEN NoIndex
    ELSE IF embeds
         THEN [kind |-> "FAISS",
               sources |-> {documents[k].source : k \in 1..Len(documents)}]
         ELSE NoIndex

\* save_index, index_manager.py:57-72: what the path holds afterwards
save_index(idx, saved, saves) == IF idx # NoIndex /\ saves THEN idx ELSE saved

\* load_index, index_manager.py:74-86
load_index(saved, loads) == IF loads THEN saved ELSE NoIndex

\* what the services do during one run of the script
Environments == [loads : BOOLEAN, embeds : BOOLEAN, rebuilds : BOOLEAN, saves : BOOLEAN]

\* initialize_index, main.py:36-49: the index and what the path holds
initialize_index(files, saved, env, extracted) ==
    LET loaded == IF saved # NoIndex THEN load_index(saved, env.loads) ELSE NoIndex
        documents == load_documents(files, extracted)
        created == create_index(documents, env.embeds)
    IN IF loaded # NoIndex THEN [index |-> loaded, saved |-> saved]
       ELSE IF documents # <<>> /\ created # NoIndex
            THEN [index |-> created, saved |-> save_index(created, saved, env.saves)]
            ELSE [index |-> NoIndex, saved |-> saved]

\* main.py:59-67: the initial load, while documents_loaded is False
InitialLoad(st, env, extracted) ==
    IF st.documents_loaded THEN st
    ELSE LET init == initialize_index(st.folder, st.disk_index, env, extracted)
         IN [st EXCEPT !.index = init.index,
                       !.disk_index = init.saved,
                       !.documents_loaded = (init.index # NoIndex)]

\* main.py:77-91: the uploaded files are written to the folder, the
\* documents reloaded and the index recreated
UploadRebuild(st, uploaded, env, extracted) ==
    IF uploaded = {} THEN st
    ELSE LET written == st.folder \cup uploaded
             documents == load_documents(written, extracted)
             created == create_index(documents, env.rebuilds)
         IN IF documents = <<>> THEN [st EXCEPT !.folder = written]
            ELSE [st EXCEPT !.folder = written,
                            !.index = created,
                            !.disk_index = save_index(created, st.disk_index, env.saves)]

\* main.py:51-91: the script from its top to the chat interface
ScriptTop(uploaded, env, extracted) ==
    UploadRebuild(
        InitialLoad([index |-> session_index,
                     documents_loaded |-> documents_loaded,
                     folder |-> folder,
                     disk_index |-> disk_index], env, extracted),
        uploaded, env, extracted)

-----------------------------------------------------------------------------
(* Specification SpecSession: the reruns of the script of main.py.         *)

\* an index saved by an earlier session
EarlierIndex == [kind |-> "FAISS", sources |-> {Name("convocatoria", ".pdf")}]

\* what answer_query_with_context does with an index: a string, or an
\* exception that ends the run
AnswerOutcomes == {"response", "raises"}

InitSession ==
    /\ session_index = NoIndex
    /\ chat_history = <<>>
    /\ documents_loaded = FALSE
    /\ uploaded_files = {}
    /\ folder \in SUBSET SessionFiles
    /\ disk_index \in {NoIndex, EarlierIndex}
    /\ IdleClean
    /\ IdleSeg
    /\ IdleBuild
    /\ IdlePre
    /\ IdleQuery

\* the session state a run leaves, but for the chat history
RunTop(uploaded, env) ==
    \E extracted \in {FolderDocuments} :
    LET st == ScriptTop(uploaded, env, extracted)
    IN /\ session_index' = st.index
       /\ documents_loaded' = st.documents_loaded
       /\ folder' = st.folder
       /\ disk_index' = st.disk_index
       /\ uploaded_files' = uploaded

\* a run without a chat event: the page is opened or rerun
Rerun ==
    /\ \E env \in Environments : RunTop(uploaded_files, env)
    /\ UNCHANGED chat_history
    /\ UNCHANGED notSession

\* the user selects files in the uploader (main.py:71-91)
Upload ==
    /\ \E files \in SUBSET SessionFiles :
         /\ files # {}
         /\ \E env \in Environments : RunTop(files, env)
    /\ UNCHANGED chat_history
    /\ UNCHANGED notSession

\* the user empties the uploader
RemoveUploads ==
    /\ uploaded_files # {}
    /\ \E env \in Environments : RunTop({}, env)
    /\ UNCHANGED chat_history
    /\ UNCHANGED notSession

\* "Limpiar historial", main.py:106-109
ClearHistory ==
    /\ \E env \in Environments : RunTop(uploaded_files, env)
    /\ chat_history' = <<>>
    /\ UNCHANGED notSession

\* a question, main.py:118-140
Ask ==
    /\ Len(chat_history) < 2 * MaxTurns
    /\ \E env \in Environments :
         /\ RunTop(uploaded_files, env)
         /\ \E outcome \in AnswerOutcomes :
              LET response ==
                      IF session_index' = NoIndex
                      THEN "Lo siento, no hay documentos cargados en la base de conocimiento."
                      ELSE outcome
              IN IF response = "raises"
                 THEN UNCHANGED chat_history
                 ELSE chat_history' = chat_history
                          \o <<[role |-> "user", content |-> "q"],
                               [role |-> "assistant", content |-> response]>>
    /\ UNCHANGED notSession

NextSession == Rerun \/ Upload \/ RemoveUploads \/ ClearHistory \/ Ask

SpecSession == InitSession /\ [][NextSession]_vars

\* C10: in the UI session documents_loaded = True implies that the index
\* handle is not None: a rebuild whose create_index fails never replaces a
\* usable index by None.
C10_LoadedImpliesIndex == documents_loaded => session_index # NoIndex

\* the same as a step property: a usable index is never replaced by None
IndexNeverLost == [][session_index # NoIndex => session_index' # NoIndex]_vars

=============================================================================
